---- MODULE Spec2Model ----
(***************************************************************************)
(* The chunked cleaning pipeline of src/preprocessing.py as a state        *)
(* machine: preprocessing() walks the dataset chunk by chunk; each chunk   *)
(* goes through preprocessing_chunk() (duplicate removal, flag             *)
(* replacement, split by completeness, imputation of the incomplete rows,  *)
(* outlier detection, min-max scaling, outlier relocation) and is then     *)
(* appended to the good and the bad output file.                           *)
(*                                                                         *)
(* The model's table has four of the columns of the crawled data: the       *)
(* identifying IMDb ID, the categorical Genre and the numeric Metascore    *)
(* and Rating (two of the columns of the outlier test).  The raw table      *)
(* also has the Parental Guide column, which preprocessing_chunk evaluates *)
(* and drops; a guide is the empty dictionary or a text that cannot be     *)
(* evaluated.  The steps of preprocessing_chunk that only reshape other     *)
(* columns (Duration, Release Date, Budget, Gross Worldwide) have no       *)
(* counterpart here; clean_numeric_columns is called with an empty column  *)
(* list and changes nothing.  The learners (RandomForest) are external:    *)
(* whether fit/predict raise, and what they predict, is a free choice.     *)
(*                                                                         *)
(* A DataFrame is a sequence of rows; a row is [idx, cells] where idx is   *)
(* the pandas index label and cells maps a column name to a cell.  A       *)
(* numeric cell is an exact fraction <<n, d>> (floating-point rounding is  *)
(* not modelled); a categorical cell is a string.                          *)
(*                                                                         *)
(* Three further specifications share the module: CodecSpec (encoding,     *)
(* encode_and_impute, decoding), ParseSpec (split_date_and_place,          *)
(* parse_duration, parse_money applied to one value) and CrawlSpec         *)
(* (crawling_with_time_limit of src/web-crawling.py).  Each specification  *)
(* holds the variables of the others at their idle values.                 *)
(***************************************************************************)
EXTENDS Integers, Sequences, FiniteSets, TLC

\* ------------------------------------------------------------------ bounds
NFill == 10         \* rows of the filler block of a generated dataset
MaxSpecial == 2     \* rows drawn freely from RowTemplates
SmallChunk == 2     \* largest of the small chunk_size values tried
MaxRows == 2        \* rows of a table given to the encode functions
MaxTop == 2         \* largest top_threshold tried

\* ------------------------------------------------------- program constants
ScriptChunkSize == 1000   \* chunk_size of the script's own run
BadChunkSize == 1000      \* chunk_size passed to process_large_bad_data
max_iter == 5             \* default of safe_impute_missing_values
SigmaFactor == 3          \* the 3 of "3 * data[col].std()"

\* ------------------------------------------------------------------ cells
NaN == <<0, 0>>
None == "None"
Num(v) == <<v, 1>>

columns == <<"IMDb ID", "Genre", "Metascore", "Rating">>
\* select_dtypes(['int64','float64']) and select_dtypes(['object']), in
\* column order
numeric_columns == <<"Metascore", "Rating">>
categorical_columns == <<"IMDb ID", "Genre">>
\* the columns of the outlier test and of the scaler (those of the model)
numerical_columns == <<"Rating", "Metascore">>
flags == <<"N/A", "">>

Range(s) == {s[i] : i \in 1..Len(s)}
Min(a, b) == IF a < b THEN a ELSE b

IsNumeric(c) == c \in Range(numeric_columns)
isnull(c, v) == IF IsNumeric(c) THEN v = NaN ELSE v = None
notnull(c, v) == ~isnull(c, v)

Row(i, id, genre, meta, rating) ==
  [idx |-> i,
   cells |-> [c \in Range(columns) |->
                CASE c = "IMDb ID" -> id
                  [] c = "Genre" -> genre
                  [] c = "Metascore" -> meta
                  [] c = "Rating" -> rating]]

SetCell(r, c, v) == [r EXCEPT !.cells[c] = v]

\* "Parental Guide": str(parent_guide_data), the column of the raw table
ParentalGuide == "Parental Guide"
EmptyGuide == "{}"
BrokenGuide == "{'Violence': "
WithGuide(r, g) ==
  [idx |-> r.idx,
   cells |-> [c \in Range(columns) \cup {ParentalGuide} |->
                IF c = ParentalGuide THEN g ELSE r.cells[c]]]

RECURSIVE Filter(_, _)
\* the rows of s whose position is in keep, in order
Filter(s, keep) ==
  IF s = <<>> THEN <<>>
  ELSE LET n == Len(s)
           front == Filter(SubSeq(s, 1, n - 1), keep)
       IN IF n \in keep THEN Append(front, s[n]) ELSE front

RECURSIVE SumSeq(_)
SumSeq(s) == IF s = <<>> THEN 0 ELSE s[1] + SumSeq(Tail(s))

RECURSIVE GCD(_, _)
GCD(a, b) == IF b = 0 THEN a ELSE GCD(b, a % b)

\* the fraction n/d (n >= 0, d > 0) in lowest terms
Frac(n, d) == LET g == GCD(n, d) IN <<n \div g, d \div g>>

\* ---------------------------------------------------------- the input data
\* Rows a dataset is built from (without index).  The IMDb ID identifies the
\* template, so two rows of the same template are exact duplicates.
RowTemplates ==
  { [id |-> "ttA", genre |-> "a",    meta |-> Num(0), rating |-> Num(1), guide |-> EmptyGuide],
    [id |-> "ttB", genre |-> "b",    meta |-> Num(2), rating |-> Num(2), guide |-> EmptyGuide],
    [id |-> "ttC", genre |-> "a",    meta |-> Num(0), rating |-> NaN, guide |-> EmptyGuide],
    [id |-> "ttD", genre |-> None,   meta |-> Num(0), rating |-> Num(2), guide |-> EmptyGuide],
    [id |-> "ttE", genre |-> "N/A",  meta |-> NaN,    rating |-> NaN, guide |-> EmptyGuide],
    [id |-> "ttH", genre |-> "b",    meta |-> NaN,    rating |-> Num(2), guide |-> EmptyGuide],
    [id |-> "ttG", genre |-> "a",    meta |-> Num(0), rating |-> Num(0), guide |-> BrokenGuide] }

\* the filler block: n complete rows, all alike but for the IMDb ID
FillRows(n) ==
  [i \in 1..n |-> Row(i - 1, "tt" \o ToString(i), "a", Num(0), Num(0))]

\* the table without the Parental Guide column
TableOf(n, sp) ==
  FillRows(n) \o
  [i \in 1..Len(sp) |->
     Row(n + i - 1, sp[i].id, sp[i].genre, sp[i].meta, sp[i].rating)]

\* the dataset: a filler block followed by the chosen special rows, with the
\* Parental Guide column (the filler rows hold the empty guide) or without it
Dataset(n, sp, with_guide) ==
  LET t == TableOf(n, sp)
  IN IF with_guide
     THEN [i \in 1..Len(t) |->
             WithGuide(t[i], IF i <= n THEN EmptyGuide ELSE sp[i - n].guide)]
     ELSE t

SeqsUpTo(S, n) == UNION {[1..k -> S] : k \in 0..n}

\* ------------------------------------------------- preprocessing_chunk parts
\* DataFrame.drop_duplicates(): a row is dropped when an earlier row has the
\* same value in every column (the index is not compared)
drop_duplicates(df) ==
  Filter(df, {i \in 1..Len(df) : \A j \in 1..(i - 1) : df[j].cells # df[i].cells})

\* df.replace(flag, None): every cell equal to the flag becomes None
ReplaceFlag(df, flag) ==
  [i \in 1..Len(df) |->
     [df[i] EXCEPT !.cells =
        [c \in Range(columns) |->
           IF ~IsNumeric(c) /\ df[i].cells[c] = flag THEN None
           ELSE df[i].cells[c]]]]

RECURSIVE ReplaceFlags(_, _)
ReplaceFlags(df, fl) ==
  IF fl = <<>> THEN df ELSE ReplaceFlags(ReplaceFlag(df, Head(fl)), Tail(fl))

\* mutant of replace_flags_with_nan: only the flag '' is replaced
replace_empty_flag_only(df) == ReplaceFlags(df, <<"">>)

replace_flags_with_nan(df) == ReplaceFlags(df, flags)

HasNull(r) == \E c \in Range(columns) : isnull(c, r.cells[c])

\* mutant of dropna: dropna(subset=numeric columns)
dropna_numeric(df) ==
  Filter(df, {i \in 1..Len(df) :
                \A c \in Range(numeric_columns) : notnull(c, df[i].cells[c])})

\* df.dropna()
dropna(df) == Filter(df, {i \in 1..Len(df) : ~HasNull(df[i])})

\* df[df.isnull().any(axis=1)]
null_rows(df) == Filter(df, {i \in 1..Len(df) : HasNull(df[i])})

split_data_by_null(df) == [non_null_df |-> dropna(df), null_df |-> null_rows(df)]

\* reset_index(drop=True): the rows get the index labels 0, 1, ...
reset_index(df) == [i \in 1..Len(df) |-> [df[i] EXCEPT !.idx = i - 1]]

\* ast.literal_eval(parent_guide) returns a dictionary
Evaluable(g) == g = EmptyGuide

\* mutant of StructuralFailure: what line 570 raises is swallowed
StructuralFailureIgnored(df) == FALSE

\* data['Parental Guide'].apply(process_parent_guide) raises: the column is
\* not there (KeyError) or a guide cannot be evaluated (literal_eval raises)
StructuralFailure(df) ==
  \E i \in 1..Len(df) :
     IF ParentalGuide \in DOMAIN df[i].cells
     THEN ~Evaluable(df[i].cells[ParentalGuide])
     ELSE TRUE

\* lines 570-572: the features of the guides are added (the empty guide has
\* none) and the Parental Guide column is dropped
process_parent_guides(df) ==
  [i \in 1..Len(df) |->
     [df[i] EXCEPT !.cells = [c \in Range(columns) |-> df[i].cells[c]]]]

\* the chunk after the steps that precede the split (lines 562-611)
Normalized(chunk) ==
  replace_flags_with_nan(process_parent_guides(drop_duplicates(chunk)))

\* ----------------------------------------------------------- column statistics
complete_mask(df, c) == {i \in 1..Len(df) : notnull(c, df[i].cells[c])}
\* mutant of missing_mask: every row of the column is imputed anew
missing_mask_every_row(df, c) == 1..Len(df)

missing_mask(df, c) == {i \in 1..Len(df) : isnull(c, df[i].cells[c])}

Column(df, c) == [i \in 1..Len(df) |-> df[i].cells[c]]
Observed(df, c) == Column(Filter(df, complete_mask(df, c)), c)

AddFrac(a, b) == Frac(a[1] * b[2] + b[1] * a[2], a[2] * b[2])

RECURSIVE SumFrac(_)
SumFrac(s) == IF s = <<>> THEN <<0, 1>> ELSE AddFrac(s[1], SumFrac(Tail(s)))

\* Series.mean(): the mean of the observed values, NaN when there is none
mean(df, c) ==
  LET obs == Observed(df, c)
      s == SumFrac(obs)
  IN IF obs = <<>> THEN NaN ELSE Frac(s[1], s[2] * Len(obs))

\* the sort order of the category values (Series.mode() sorts its result)
CatSorted == <<"a", "b">>
CatRank(v) == CHOOSE i \in 1..Len(CatSorted) : CatSorted[i] = v
Count(s, v) == Cardinality({i \in 1..Len(s) : s[i] = v})

\* Series.mode(): the most frequent observed values, sorted
Modes(df, c) ==
  LET obs == Observed(df, c)
  IN {v \in Range(obs) : \A w \in Range(obs) : Count(obs, w) <= Count(obs, v)}

\* Series.mode()[0]; the caller checks Modes(df, c) # {}
mode0(df, c) ==
  LET m == Modes(df, c)
  IN CHOOSE v \in m : \A w \in m : CatRank(v) <= CatRank(w)

\* Series.fillna(v)
fillna(df, c, v) ==
  [i \in 1..Len(df) |->
     IF isnull(c, df[i].cells[c]) THEN SetCell(df[i], c, v) ELSE df[i]]

\* df.loc[missing_mask, c] = values: the k-th missing row gets values[k]
RankIn(mask, i) == Cardinality({j \in mask : j <= i})
AssignMissing(df, c, values) ==
  LET mm == missing_mask(df, c)
  IN [i \in 1..Len(df) |->
        IF i \in mm THEN SetCell(df[i], c, values[RankIn(mm, i)]) ELSE df[i]]

\* ------------------------------------------------------------------ outliers
\* Raw numeric cells are whole numbers n/1; Val reads the number.
Val(cell) == cell[1]
Vals(s) == [i \in 1..Len(s) |-> Val(s[i])]
Squares(s) == [i \in 1..Len(s) |-> s[i] * s[i]]

\* (x - good[col].mean()).abs() > 3 * data[col].std(), in exact arithmetic:
\* with the mean Sg/ng and the sample variance (nd*Qd - Sd^2)/(nd*(nd-1)),
\* both sides squared and the denominators cleared.  std() is NaN for fewer
\* than two observed values, and a comparison with NaN is false.
ExceedsSigma(x, gvals, dvals) ==
  LET ng == Len(gvals)
      Sg == SumSeq(gvals)
      nd == Len(dvals)
      Sd == SumSeq(dvals)
      Qd == SumSeq(Squares(dvals))
      dev == ng * x - Sg
  IN /\ ng > 0
     /\ nd >= 2
     /\ dev * dev * nd * (nd - 1)
          > SigmaFactor * SigmaFactor * (nd * Qd - Sd * Sd) * ng * ng

\* mutant of OutliersOf: the standard deviation is taken over good_data
OutliersOfGoodStd(good, dat, c) ==
  LET gvals == Vals(Column(good, c))
      hit == {i \in 1..Len(good) : ExceedsSigma(gvals[i], gvals, gvals)}
  IN [i \in 1..Cardinality(hit) |->
        LET k == CHOOSE k \in hit : RankIn(hit, k) = i
        IN [idx |-> good[k].idx, val |-> good[k].cells[c]]]

\* good_data[col][...]: the flagged rows' index labels and raw values
OutliersOf(good, dat, c) ==
  LET gvals == Vals(Column(good, c))
      dvals == Vals(Observed(dat, c))
      hit == {i \in 1..Len(good) : ExceedsSigma(gvals[i], gvals, dvals)}
  IN [i \in 1..Cardinality(hit) |->
        LET k == CHOOSE k \in hit : RankIn(hit, k) = i
        IN [idx |-> good[k].idx, val |-> good[k].cells[c]]]

Outliers(good, dat) == [c \in Range(numerical_columns) |-> OutliersOf(good, dat, c)]

\* ------------------------------------------------------------------- scaling
ColMin(df, c) ==
  LET v == Vals(Column(df, c)) IN CHOOSE m \in Range(v) : \A w \in Range(v) : m <= w
ColMax(df, c) ==
  LET v == Vals(Column(df, c)) IN CHOOSE m \in Range(v) : \A w \in Range(v) : m >= w

\* mutant of ScaleCell: the minimum is not subtracted when the range is not zero
ScaleCellNoShift(x, mn, mx) == IF mx = mn THEN Frac(x - mn, 1) ELSE Frac(x, mx - mn)

\* MinMaxScaler: (x - min) / (max - min); a zero range is scaled by 1
ScaleCell(x, mn, mx) == IF mx = mn THEN Frac(x - mn, 1) ELSE Frac(x - mn, mx - mn)

\* good_data.loc[:, numerical_columns] = scaler.fit_transform(...)
\* (the caller checks Len(df) > 0: the scaler raises on an empty table)
fit_transform(df) ==
  [i \in 1..Len(df) |->
     [df[i] EXCEPT !.cells =
        [c \in Range(columns) |->
           IF c \in Range(numerical_columns)
           THEN ScaleCell(Val(df[i].cells[c]), ColMin(df, c), ColMax(df, c))
           ELSE df[i].cells[c]]]]

\* good_data[col].isin(outlier_values)
isin(df, c, outlier_values) ==
  {i \in 1..Len(df) : \E k \in 1..Len(outlier_values) :
                         df[i].cells[c] = outlier_values[k].val}

\* the loop of lines 625-627 over the columns cs
RECURSIVE MoveOutliers(_, _, _, _)
MoveOutliers(cs, good, bad, outl) ==
  IF cs = <<>> THEN [good_data |-> good, bad_data |-> bad]
  ELSE LET c == Head(cs)
           hit == isin(good, c, outl[c])
       IN MoveOutliers(Tail(cs),
                       Filter(good, (1..Len(good)) \ hit),
                       bad \o Filter(good, hit),
                       outl)

\* ---------------------------------------------------------------- the state
VARIABLES
  df,                 \* the dataset preprocessing() was given
  chunk_size,         \* its chunk_size argument
  good_existed,       \* os.path.exists(output_file_good) when the run began
  bad_existed,        \* os.path.exists(output_file_bad) when the run began
  good_file,          \* the lines of the good output file
  bad_file,           \* the lines of the bad output file
  good_file_exists,   \* the loop's flag of lines 659, 680
  bad_file_exists,    \* the loop's flag of lines 660, 692
  start,              \* loop variable of preprocessing()
  pc,                 \* where the run stands
  raised,             \* "" or the call that raised out of the run
  data,               \* preprocessing_chunk: the normalized chunk
  good_data,          \* preprocessing_chunk: complete rows
  bad_data,           \* preprocessing_chunk: incomplete rows (+ moved outliers)
  pl_bad_data,        \* process_large_bad_data: bad_data after reset_index
  bstart,             \* process_large_bad_data: loop variable
  fully_imputed_data, \* process_large_bad_data: the accumulated result
  impute_data,        \* safe_impute_missing_values: the working copy
  iteration,          \* safe_impute_missing_values: passes completed
  col_i,              \* position in ImputeOrder within the pass
  predicted_values,   \* the local of that name: <<>> while unbound
  fit_col,            \* target column of the latest model.fit, "" if none
  X_train,            \* rows of the latest model.fit
  outliers,           \* preprocessing_chunk: column -> flagged values
  good_chunk,         \* what preprocessing_chunk returned (good)
  bad_chunk,          \* what preprocessing_chunk returned (bad)
  chunks,             \* history: the slices df.iloc[start:end] taken so far
  returned,           \* history: the pairs preprocessing_chunk returned
  method,             \* codec: "encoding" or "encode_and_impute" ("" if none)
  table,              \* codec: the DataFrame given to the encode function
  columns_to_encode,  \* codec: choosed_columns / columns_to_encode
  top_threshold,      \* codec: the argument of that name
  cpc,                \* codec: where the encode/decode run stands
  encoded_columns_info, \* codec: top_values (in dict order), multi_value_columns
  one_hot_columns,    \* codec: the indicator columns made so far
  result_data,        \* codec: what the encode function returned
  decoded_data,       \* codec: decoding's working copy
  dec_k,              \* codec: entries of top_values decoding has handled
  value,              \* parsing: the argument of the parse function
  called,             \* parsing: the function applied to it ("" if none)
  outcome,            \* parsing: what the call returned or raised
  ids_file,           \* crawler: the IDs of imdb_ids_request.csv, in order
  crawled_file,       \* crawler: the IDs of the rows of the crawled-data file
  number_of_movies,   \* crawler: the argument of that name
  expired,            \* crawler: elapsed_time >= max_seconds
  failures,           \* crawler: crawls that have raised
  wpc,                \* crawler: where the run stands
  crawled_data_df,    \* web_crawling: the crawled table as last read
  imdb_ids_df,        \* web_crawling: the IDs table as last read
  bias,               \* web_crawling: the local of that name
  success,            \* web_crawling: the local of that name
  list_of_error_imdb_ids, \* web_crawling: the local of that name
  pass_ended,         \* history: the latest pass of the loop ran to its end
  target,             \* run_crawling: what it was given as output file
  loop_ids,           \* imdb_ids of run_crawling, remaining_ids of continue_crawling
  it,                 \* position of the loop in loop_ids
  error_id,           \* continue_crawling: the local of that name
  first_time,         \* continue_crawling: the local of that name
  attempted,          \* history: IDs continue_crawling has tried to crawl
  failed,             \* history: those whose crawl raised
  cont_returned       \* history: continue_crawling has returned error_id

filevars == <<good_file, bad_file, good_file_exists, bad_file_exists>>
inputvars == <<df, chunk_size, good_existed, bad_existed>>
chunkvars == <<data, good_data, bad_data, pl_bad_data, outliers>>
badloopvars == <<bstart, fully_imputed_data>>
imputevars == <<impute_data, iteration, col_i, predicted_values, fit_col, X_train>>
resultvars == <<good_chunk, bad_chunk>>
histvars == <<chunks, returned>>
codecvars == <<method, table, columns_to_encode, top_threshold, cpc,
               encoded_columns_info, one_hot_columns, result_data, decoded_data,
               dec_k>>
pipelinevars == <<inputvars, filevars, start, pc, raised, chunkvars, badloopvars,
                  imputevars, resultvars, histvars>>
parsevars == <<value, called, outcome>>
cfilevars == <<ids_file, crawled_file>>
envvars == <<number_of_movies, expired, failures>>
webvars == <<crawled_data_df, imdb_ids_df, bias, success, list_of_error_imdb_ids,
             pass_ended>>
loopvars == <<target, loop_ids, it, error_id, first_time, attempted, failed,
              cont_returned>>
crawlvars == <<cfilevars, envvars, wpc, webvars, loopvars>>
sidevars == <<parsevars, crawlvars>>
vars == <<pipelinevars, codecvars, sidevars>>

NoInfo == [top_values |-> <<>>, multi_value_columns |-> <<>>]
NoTable == [cols |-> <<>>, rows |-> <<>>]

\* no encode/decode run is part of a run of preprocessing()
CodecIdle ==
  /\ method = "" /\ table = NoTable /\ columns_to_encode = <<>>
  /\ top_threshold = 0 /\ cpc = "idle"
  /\ encoded_columns_info = NoInfo /\ one_hot_columns = <<>>
  /\ result_data = NoTable /\ decoded_data = NoTable /\ dec_k = 0

total_rows == Len(df)

\* mutant of ChunkEnd: the slice runs one row too far
ChunkEndOver(s) == Min(s + chunk_size + 1, total_rows)

\* end = min(start + chunk_size, total_rows)
ChunkEnd(s) == Min(s + chunk_size, total_rows)

\* df.iloc[start:end]
iloc(d, s, e) == SubSeq(d, s + 1, e)

\* mutant of ImputeOrder: the categorical loop runs before the numeric one
ImputeOrderCategoricalFirst == categorical_columns \o numeric_columns

\* numeric columns first, then categorical (lines 438, 468)
ImputeOrder == numeric_columns \o categorical_columns

NoOutliers == [c \in Range(numerical_columns) |-> <<>>]

\* the lines DataFrame.to_csv(mode='a', header=h, index=False) appends; an
\* empty DataFrame() has no columns
ColumnsOf(d) == IF d = <<>> THEN <<>> ELSE columns
HeaderLine(cols) == [kind |-> "header", cols |-> cols, cells |-> <<>>]
RowLine(cols, r) == [kind |-> "row", cols |-> cols, cells |-> r.cells]
to_csv(d, cols, h) ==
  (IF h THEN <<HeaderLine(cols)>> ELSE <<>>) \o
  [i \in 1..Len(d) |-> RowLine(cols, d[i])]

\* mutant of append_csv: mode='w', the file is written anew
overwrite_csv(file, d, cols, h) == to_csv(d, cols, h)

\* DataFrame.to_csv(path, mode='a', ...): the lines are added to the file
append_csv(file, d, cols, h) == file \o to_csv(d, cols, h)

\* mutant of HeaderFlag: header=True on every write
HeaderAlways(exists) == TRUE

\* header=not good_file_exists, header=not bad_file_exists
HeaderFlag(exists) == ~exists

\* an output file left by an earlier run
OldFile == <<HeaderLine(columns)>>

ChunkSizes == (1..SmallChunk) \cup {ScriptChunkSize}

\* no parse function is applied on its own
NoOutcome == [kind |-> "none"]
ParseIdle == value = NoOutcome /\ called = "" /\ outcome = NoOutcome

\* the crawler does not run
CrawlIdle ==
  /\ ids_file = <<>> /\ crawled_file = <<>> /\ number_of_movies = 0
  /\ expired = FALSE /\ failures = 0 /\ wpc = "idle"
  /\ crawled_data_df = <<>> /\ imdb_ids_df = <<>>
  /\ bias = 0 /\ success = FALSE /\ list_of_error_imdb_ids = <<>>
  /\ pass_ended = FALSE
  /\ target = "" /\ loop_ids = <<>> /\ it = 1
  /\ error_id = <<>> /\ first_time = TRUE
  /\ attempted = <<>> /\ failed = <<>> /\ cont_returned = FALSE

SideIdle == ParseIdle /\ CrawlIdle

Init ==
  /\ \E n \in {0, NFill}, sp \in SeqsUpTo(RowTemplates, MaxSpecial),
        with_guide \in BOOLEAN :
       df = Dataset(n, sp, with_guide)
  /\ chunk_size \in ChunkSizes
  /\ good_existed \in BOOLEAN
  /\ bad_existed \in BOOLEAN
  /\ good_file = IF good_existed THEN OldFile ELSE <<>>
  /\ bad_file = IF bad_existed THEN OldFile ELSE <<>>
  /\ good_file_exists = good_existed
  /\ bad_file_exists = bad_existed
  /\ start = 0
  /\ pc = "loop"
  /\ raised = ""
  /\ data = <<>> /\ good_data = <<>> /\ bad_data = <<>> /\ pl_bad_data = <<>>
  /\ outliers = NoOutliers
  /\ bstart = 0 /\ fully_imputed_data = <<>>
  /\ impute_data = <<>> /\ iteration = 0 /\ col_i = 1
  /\ predicted_values = <<>> /\ fit_col = "" /\ X_train = <<>>
  /\ good_chunk = <<>> /\ bad_chunk = <<>>
  /\ chunks = <<>> /\ returned = <<>>
  /\ CodecIdle
  /\ SideIdle

\* ------------------------------------------------------------ preprocessing
\* lines 662-668, 562-614 and 521-524: take the next chunk, normalize and
\* split it, and enter process_large_bad_data
TakeChunk ==
  /\ pc = "loop"
  /\ start < total_rows
  /\ ~StructuralFailure(drop_duplicates(iloc(df, start, ChunkEnd(start))))
  /\ LET chunk == iloc(df, start, ChunkEnd(start))
         d == Normalized(chunk)
         parts == split_data_by_null(d)
     IN /\ data' = d
        /\ good_data' = parts.non_null_df
        /\ bad_data' = parts.null_df
        /\ pl_bad_data' = reset_index(parts.null_df)
        /\ chunks' = Append(chunks, chunk)
  /\ bstart' = 0
  /\ fully_imputed_data' = <<>>
  /\ pc' = "bad_loop"
  /\ UNCHANGED <<codecvars, sidevars, inputvars, filevars, start, raised, outliers, imputevars,
                 resultvars, returned>>

\* lines 662-668 and 566-570: the chunk is taken and line 570 raises; nothing
\* catches it, the run ends
ChunkAborts ==
  /\ pc = "loop"
  /\ start < total_rows
  /\ StructuralFailure(drop_duplicates(iloc(df, start, ChunkEnd(start))))
  /\ chunks' = Append(chunks, iloc(df, start, ChunkEnd(start)))
  /\ pc' = "raised"
  /\ raised' = "preprocessing_chunk"
  /\ UNCHANGED <<codecvars, sidevars, inputvars, filevars, start, chunkvars, badloopvars, imputevars,
                 resultvars, returned>>

\* the range of line 662 is exhausted
LoopExit ==
  /\ pc = "loop"
  /\ start >= total_rows
  /\ pc' = "done"
  /\ UNCHANGED <<codecvars, sidevars, inputvars, filevars, start, raised, chunkvars, badloopvars,
                 imputevars, resultvars, histvars>>

\* ---------------------------------------------------- process_large_bad_data
\* mutant of BadSlice: the slice ends one row early
BadSliceShort ==
  iloc(pl_bad_data, bstart, Min(bstart + BadChunkSize, Len(pl_bad_data)) - 1)

\* bad_data.iloc[start:end] of lines 528, 532
BadSlice == iloc(pl_bad_data, bstart, Min(bstart + BadChunkSize, Len(pl_bad_data)))

\* lines 527-535 and 424-431: take the next slice of the incomplete rows and
\* enter safe_impute_missing_values (good_data is passed and not read)
BadChunkBegin ==
  /\ pc = "bad_loop"
  /\ bstart < Len(pl_bad_data)
  /\ impute_data' = BadSlice
  /\ iteration' = 0
  /\ col_i' = 1
  /\ predicted_values' = <<>>
  /\ pc' = "impute"
  /\ UNCHANGED <<codecvars, sidevars, inputvars, filevars, start, raised, chunkvars, badloopvars,
                 fit_col, X_train, resultvars, histvars>>

\* line 540, and the return to line 615
BadLoopExit ==
  /\ pc = "bad_loop"
  /\ bstart >= Len(pl_bad_data)
  /\ pc' = "detect"
  /\ UNCHANGED <<codecvars, sidevars, inputvars, filevars, start, raised, chunkvars, badloopvars,
                 imputevars, resultvars, histvars>>

\* ------------------------------------------------ safe_impute_missing_values
TargetCol == ImputeOrder[col_i]
InPass == pc = "impute" /\ iteration < max_iter
AnyNull(d, c) == missing_mask(d, c) # {}

\* impute_data.loc[mask, feature_columns]
FeatureRows(d, mask, c) ==
  LET rows == Filter(d, mask)
  IN [i \in 1..Len(rows) |->
        [idx |-> rows[i].idx,
         cells |-> [k \in Range(columns) \ {c} |-> rows[i].cells[k]]]]

\* the next column of the pass, or the next pass
Advance ==
  IF col_i < Len(ImputeOrder)
  THEN col_i' = col_i + 1 /\ iteration' = iteration
  ELSE col_i' = 1 /\ iteration' = iteration + 1

\* what a fitted learner may predict for m rows: the regressor and the
\* classifier are external; the model lets each prediction be any of the
\* training targets
Predictions(d, c) ==
  [1..Cardinality(missing_mask(d, c)) -> Range(Observed(d, c))]

\* lines 439, 469: the column has no missing value
ImputeSkip ==
  /\ InPass
  /\ ~AnyNull(impute_data, TargetCol)
  /\ Advance
  /\ UNCHANGED <<codecvars, sidevars, inputvars, filevars, start, pc, raised, chunkvars, badloopvars,
                 impute_data, predicted_values, fit_col, X_train, resultvars,
                 histvars>>

\* lines 449-460: the regressor is fitted and its predictions are filled in
ImputeNumericFit ==
  /\ InPass
  /\ IsNumeric(TargetCol)
  /\ AnyNull(impute_data, TargetCol)
  /\ complete_mask(impute_data, TargetCol) # {}
  /\ \E pred \in Predictions(impute_data, TargetCol) :
       /\ predicted_values' = pred
       /\ impute_data' = AssignMissing(impute_data, TargetCol, pred)
  /\ X_train' = FeatureRows(impute_data, complete_mask(impute_data, TargetCol), TargetCol)
  /\ fit_col' = TargetCol
  /\ Advance
  /\ UNCHANGED <<codecvars, sidevars, inputvars, filevars, start, pc, raised, chunkvars, badloopvars,
                 resultvars, histvars>>

\* mutant of NumericFallback: the result of fillna is not assigned
NumericFallbackLost(d, c) == d

\* lines 462-465: fit or predict raised; the column mean is filled in
NumericFallback(d, c) == fillna(d, c, mean(d, c))

ImputeNumericFallback ==
  /\ InPass
  /\ IsNumeric(TargetCol)
  /\ AnyNull(impute_data, TargetCol)
  /\ complete_mask(impute_data, TargetCol) # {}
  /\ impute_data' = NumericFallback(impute_data, TargetCol)
  /\ X_train' = FeatureRows(impute_data, complete_mask(impute_data, TargetCol), TargetCol)
  /\ fit_col' = TargetCol
  /\ Advance
  /\ UNCHANGED <<codecvars, sidevars, inputvars, filevars, start, pc, raised, chunkvars, badloopvars,
                 predicted_values, resultvars, histvars>>

\* line 449 is false: no row has the target, nothing is trained, nothing is
\* raised, nothing is filled
ImputeNumericNoTrain ==
  /\ InPass
  /\ IsNumeric(TargetCol)
  /\ AnyNull(impute_data, TargetCol)
  /\ complete_mask(impute_data, TargetCol) = {}
  /\ Advance
  /\ UNCHANGED <<codecvars, sidevars, inputvars, filevars, start, pc, raised, chunkvars, badloopvars,
                 impute_data, predicted_values, fit_col, X_train, resultvars,
                 histvars>>

\* lines 479-494: the classifier is fitted and its predictions are filled in
ImputeCategoricalFit ==
  /\ InPass
  /\ ~IsNumeric(TargetCol)
  /\ AnyNull(impute_data, TargetCol)
  /\ complete_mask(impute_data, TargetCol) # {}
  /\ \E pred \in Predictions(impute_data, TargetCol) :
       /\ predicted_values' = pred
       /\ impute_data' = AssignMissing(impute_data, TargetCol, pred)
  /\ X_train' = FeatureRows(impute_data, complete_mask(impute_data, TargetCol), TargetCol)
  /\ fit_col' = TargetCol
  /\ Advance
  /\ UNCHANGED <<codecvars, sidevars, inputvars, filevars, start, pc, raised, chunkvars, badloopvars,
                 resultvars, histvars>>

\* lines 496-499: fit or predict raised; mode()[0] is filled in
CategoricalFallback(d, c) == fillna(d, c, mode0(d, c))

ImputeCategoricalFallback ==
  /\ InPass
  /\ ~IsNumeric(TargetCol)
  /\ AnyNull(impute_data, TargetCol)
  /\ complete_mask(impute_data, TargetCol) # {}
  /\ impute_data' = CategoricalFallback(impute_data, TargetCol)
  /\ X_train' = FeatureRows(impute_data, complete_mask(impute_data, TargetCol), TargetCol)
  /\ fit_col' = TargetCol
  /\ Advance
  /\ UNCHANGED <<codecvars, sidevars, inputvars, filevars, start, pc, raised, chunkvars, badloopvars,
                 predicted_values, resultvars, histvars>>

\* line 479 is false and line 494, outside the if, still runs.  With
\* predicted_values left by an earlier column and of the right length the
\* stale values are assigned.  Otherwise line 494 raises (the name is unbound,
\* or the lengths differ), the handler of line 499 evaluates mode()[0] of a
\* column without any value, and that raises out of the function.
StaleFits(d, c) ==
  /\ predicted_values # <<>>
  /\ Len(predicted_values) = Cardinality(missing_mask(d, c))

ImputeCategoricalNoTrain ==
  /\ InPass
  /\ ~IsNumeric(TargetCol)
  /\ AnyNull(impute_data, TargetCol)
  /\ complete_mask(impute_data, TargetCol) = {}
  /\ IF StaleFits(impute_data, TargetCol)
     THEN /\ impute_data' = AssignMissing(impute_data, TargetCol, predicted_values)
          /\ Advance
          /\ UNCHANGED <<pc, raised>>
     ELSE /\ pc' = "raised"
          /\ raised' = "safe_impute_missing_values"
          /\ UNCHANGED <<impute_data, iteration, col_i>>
  /\ UNCHANGED <<codecvars, sidevars, inputvars, filevars, start, chunkvars, badloopvars,
                 predicted_values, fit_col, X_train, resultvars, histvars>>

\* lines 501 and 538: max_iter passes are done; the result is concatenated
\* (ignore_index=True) and the loop of line 527 goes on
ImputeReturn ==
  /\ pc = "impute"
  /\ iteration >= max_iter
  /\ fully_imputed_data' = reset_index(fully_imputed_data \o impute_data)
  /\ bstart' = bstart + BadChunkSize
  /\ pc' = "bad_loop"
  /\ UNCHANGED <<codecvars, sidevars, inputvars, filevars, start, raised, chunkvars, imputevars,
                 resultvars, histvars>>

\* ------------------------------------------- preprocessing_chunk, lines 617-629
\* the bad partition preprocessing_chunk returns (line 629)
ReturnedBad(imputed, bad) == imputed

\* outlier test, scaling, relocation of the flagged values, return
DetectAndScale ==
  /\ pc = "detect"
  /\ good_data # <<>>
  /\ LET outl == Outliers(good_data, data)
         scaled == fit_transform(good_data)
         moved == MoveOutliers(numerical_columns, scaled, bad_data, outl)
         bad == ReturnedBad(fully_imputed_data, moved.bad_data)
     IN /\ outliers' = outl
        /\ good_data' = moved.good_data
        /\ bad_data' = moved.bad_data
        /\ good_chunk' = moved.good_data
        /\ bad_chunk' = bad
        /\ returned' = Append(returned, [good |-> moved.good_data, bad |-> bad])
  /\ pc' = "write_good"
  /\ UNCHANGED <<codecvars, sidevars, inputvars, filevars, start, raised, data, pl_bad_data,
                 badloopvars, imputevars, chunks>>

\* line 623 on a chunk without a complete row: MinMaxScaler.fit_transform
\* raises on zero samples, and nothing catches it
ScalerRaises ==
  /\ pc = "detect"
  /\ good_data = <<>>
  /\ outliers' = Outliers(good_data, data)
  /\ pc' = "raised"
  /\ raised' = "MinMaxScaler.fit_transform"
  /\ UNCHANGED <<codecvars, sidevars, inputvars, filevars, start, data, good_data, bad_data,
                 pl_bad_data, badloopvars, imputevars, resultvars, histvars>>

\* --------------------------------------------------- preprocessing, the writes
\* lines 672-680
WriteGood ==
  /\ pc = "write_good"
  /\ good_file' = append_csv(good_file, good_chunk, columns, HeaderFlag(good_file_exists))
  /\ good_file_exists' = TRUE
  /\ pc' = "write_bad"
  /\ UNCHANGED <<codecvars, sidevars, inputvars, bad_file, bad_file_exists, start, raised, chunkvars,
                 badloopvars, imputevars, resultvars, histvars>>

\* lines 683-694, and the step of the loop of line 662; the locals of the
\* chunk are gone
WriteBad ==
  /\ pc = "write_bad"
  /\ bad_file' = append_csv(bad_file, bad_chunk, ColumnsOf(bad_chunk),
                          HeaderFlag(bad_file_exists))
  /\ bad_file_exists' = TRUE
  /\ start' = start + chunk_size
  /\ pc' = "loop"
  /\ data' = <<>> /\ good_data' = <<>> /\ bad_data' = <<>> /\ pl_bad_data' = <<>>
  /\ outliers' = NoOutliers
  /\ bstart' = 0 /\ fully_imputed_data' = <<>>
  /\ impute_data' = <<>> /\ iteration' = 0 /\ col_i' = 1
  /\ predicted_values' = <<>> /\ fit_col' = "" /\ X_train' = <<>>
  /\ good_chunk' = <<>> /\ bad_chunk' = <<>>
  /\ UNCHANGED <<codecvars, sidevars, inputvars, good_file, good_file_exists, raised, histvars>>

Next ==
  \/ TakeChunk
  \/ ChunkAborts
  \/ LoopExit
  \/ BadChunkBegin
  \/ BadLoopExit
  \/ ImputeSkip
  \/ ImputeNumericFit
  \/ ImputeNumericFallback
  \/ ImputeNumericNoTrain
  \/ ImputeCategoricalFit
  \/ ImputeCategoricalFallback
  \/ ImputeCategoricalNoTrain
  \/ ImputeReturn
  \/ DetectAndScale
  \/ ScalerRaises
  \/ WriteGood
  \/ WriteBad

Spec == Init /\ [][Next]_vars

\* ================================================================ the codec
\* encoding(), encode_and_impute() and decoding() are not called by
\* preprocessing(); they are modelled as a run of their own: one of the two
\* encode functions is applied to a table, column by column, and decoding()
\* is applied to its result with the dictionary it returned.
\*
\* A text is a sequence of characters.  A cell is a text, a whole number or
\* None.  A table is [cols, rows]: the column names in order (a name may
\* occur twice) and the rows, each a sequence of cells in column order.
StrCell(s) == [kind |-> "str", text |-> s]
IntCell(n) == [kind |-> "int", num |-> n]
NoneCell == [kind |-> "none"]

\* Series.astype(str)
astype_str(cell) ==
  CASE cell.kind = "str" -> cell.text
    [] cell.kind = "int" -> <<(<<"0", "1", "2", "3", "4", "5", "6", "7", "8", "9">>)[cell.num + 1]>>
    [] cell.kind = "none" -> <<"N", "o", "n", "e">>

\* bool(cell), the test "if is_present"
Truthy(cell) ==
  CASE cell.kind = "str" -> cell.text # <<>>
    [] cell.kind = "int" -> cell.num # 0
    [] cell.kind = "none" -> FALSE

RECURSIVE split(_, _)
\* s.split(sep) for a one-character sep
split(s, sep) ==
  IF \E i \in 1..Len(s) : s[i] = sep
  THEN LET i == CHOOSE i \in 1..Len(s) : s[i] = sep /\ \A j \in 1..(i - 1) : s[j] # sep
       IN <<SubSeq(s, 1, i - 1)>> \o split(SubSeq(s, i + 1, Len(s)), sep)
  ELSE <<s>>

RECURSIVE join(_, _)
\* sep.join(parts)
join(sep, parts) ==
  IF parts = <<>> THEN <<>>
  ELSE IF Len(parts) = 1 THEN parts[1]
  ELSE parts[1] \o <<sep>> \o join(sep, Tail(parts))

\* name.startswith(prefix)
startswith(name, prefix) ==
  Len(name) >= Len(prefix) /\ SubSeq(name, 1, Len(prefix)) = prefix

\* Series.str.contains(pat) with its default regex=True, for a pattern made
\* of literal alternatives separated by '|': re.search finds some alternative
\* somewhere in s.  The pattern '|' has two alternatives, both empty.
str_contains(s, pat) ==
  \E k \in 1..Len(split(pat, "|")) : \E i \in 1..(Len(s) + 1) :
     LET alt == split(pat, "|")[k]
     IN i + Len(alt) - 1 <= Len(s) /\ SubSeq(s, i, i + Len(alt) - 1) = alt

RECURSIVE explode(_)
\* Series.explode() of a column of lists
explode(lists) == IF lists = <<>> THEN <<>> ELSE Head(lists) \o explode(Tail(lists))

\* mutant of value_counts: sort=False, the values in order of first occurrence
value_counts_unsorted(s) ==
  {p \in [1..Cardinality(Range(s)) -> Range(s)] :
     \A i, j \in DOMAIN p :
        i < j => \E a \in 1..Len(s) : s[a] = p[i] /\ \A b \in 1..a : s[b] # p[j]}

\* Series.value_counts().index.tolist(): the distinct values by falling
\* count.  The counts are sorted with pandas' default sort kind, which is not
\* stable: the order among equally frequent values is not determined.
value_counts(s) ==
  {p \in [1..Cardinality(Range(s)) -> Range(s)] :
     /\ \A i, j \in DOMAIN p : i # j => p[i] # p[j]
     /\ \A i, j \in DOMAIN p : i < j => Count(s, p[i]) >= Count(s, p[j])}

\* .head(n)
head(s, n) == SubSeq(s, 1, Min(n, Len(s)))

\* the positions of the columns of t named name; t[name] for a name that
\* occurs once
ColIdx(t, name) == {k \in 1..Len(t.cols) : t.cols[k] = name}
ColumnOf(t, name) ==
  LET k == CHOOSE k \in ColIdx(t, name) : TRUE
  IN [i \in 1..Len(t.rows) |-> t.rows[i][k]]

\* the columns of t at the positions keep, in order
Project(t, keep) ==
  [cols |-> Filter(t.cols, keep),
   rows |-> [i \in 1..Len(t.rows) |-> Filter(t.rows[i], keep)]]

\* t[names] and t.drop(columns=names)
Select(t, names) == Project(t, {k \in 1..Len(t.cols) : t.cols[k] \in Range(names)})
Drop(t, names) == Project(t, {k \in 1..Len(t.cols) : t.cols[k] \notin Range(names)})

\* pd.concat([a, b], axis=1) of tables with the same index
Concat(a, b) ==
  [cols |-> a.cols \o b.cols,
   rows |-> [i \in 1..Len(a.rows) |-> a.rows[i] \o b.rows[i]]]

\* the one-hot Series, as a table with the rows of t
OneHotTable(t, oh) ==
  [cols |-> [j \in 1..Len(oh) |-> oh[j].name],
   rows |-> [i \in 1..Len(t.rows) |-> [j \in 1..Len(oh) |-> oh[j].cells[i]]]]

\* ------------------------------------------------------- the codec's input
\* Column names: Year stands for the twelve columns encoding() leaves alone,
\* Genre is a column to encode, and Genre_n is a numeric column whose name
\* begins with "Genre_".
Year == <<"Y", "e", "a", "r">>
Genre == <<"G", "e", "n", "r", "e">>
GenreN == Genre \o <<"_", "n">>
exclude_columns == <<Year>>

GenreCells ==
  {StrCell(<<"a">>), StrCell(<<"b">>), StrCell(<<"a", "|", "b">>),
   StrCell(<<"b", "|", "a">>), NoneCell}
Schemas == {<<Year, Genre>>, <<Year, Genre, GenreN>>}

\* row i of a table: Year holds i, Genre and Genre_n what was chosen
MkRow(schema, i, ch) ==
  [j \in 1..Len(schema) |->
     CASE schema[j] = Year -> IntCell(i)
       [] schema[j] = Genre -> ch.genre
       [] schema[j] = GenreN -> IntCell(ch.n)]

Tables(schema) ==
  UNION {{[cols |-> schema, rows |-> [i \in 1..k |-> MkRow(schema, i, ch[i])]] :
            ch \in [1..k -> [genre : GenreCells, n : {0, 1}]]} : k \in 0..MaxRows}

\* no run of preprocessing() is part of an encode/decode run
PipelineIdle ==
  /\ df = <<>> /\ chunk_size = ScriptChunkSize
  /\ good_existed = FALSE /\ bad_existed = FALSE
  /\ good_file = <<>> /\ bad_file = <<>>
  /\ good_file_exists = FALSE /\ bad_file_exists = FALSE
  /\ start = 0 /\ pc = "idle" /\ raised = ""
  /\ data = <<>> /\ good_data = <<>> /\ bad_data = <<>> /\ pl_bad_data = <<>>
  /\ outliers = NoOutliers
  /\ bstart = 0 /\ fully_imputed_data = <<>>
  /\ impute_data = <<>> /\ iteration = 0 /\ col_i = 1
  /\ predicted_values = <<>> /\ fit_col = "" /\ X_train = <<>>
  /\ good_chunk = <<>> /\ bad_chunk = <<>>
  /\ chunks = <<>> /\ returned = <<>>

\* choosed_columns of encoding() (line 221)
choosed_columns(t) ==
  Filter(t.cols, {k \in 1..Len(t.cols) : t.cols[k] \notin Range(exclude_columns)})

CodecInit ==
  /\ method \in {"encoding", "encode_and_impute"}
  /\ \E schema \in Schemas : table \in Tables(schema)
  /\ top_threshold \in 1..MaxTop
  /\ columns_to_encode =
       IF method = "encoding" THEN choosed_columns(table) ELSE <<Genre>>
  /\ cpc = "encode"
  /\ encoded_columns_info = NoInfo /\ one_hot_columns = <<>>
  /\ result_data = NoTable /\ decoded_data = NoTable /\ dec_k = 0
  /\ PipelineIdle
  /\ SideIdle

\* ------------------------------------------- encoding, encode_and_impute
\* column_data.str.split('|').explode(), or column_data itself
Exploded(column_data, is_multi_value) ==
  IF is_multi_value
  THEN explode([i \in 1..Len(column_data) |-> split(column_data[i], "|")])
  ELSE column_data

\* the indicator of val for one stringified cell x (lines 242-245, 389-394)
Indicator(x, val, is_multi_value) ==
  IF is_multi_value
  THEN IF val \in Range(split(x, "|")) THEN 1 ELSE 0
  ELSE IF x = val THEN 1 ELSE 0

\* one turn of the loop of lines 228 and 370: the next column is stringified,
\* its most frequent values are recorded and its indicator columns are made
EncodeColumn ==
  /\ cpc = "encode"
  /\ Len(encoded_columns_info.top_values) < Len(columns_to_encode)
  /\ LET col == columns_to_encode[Len(encoded_columns_info.top_values) + 1]
         cells == ColumnOf(table, col)
         column_data == [i \in 1..Len(cells) |-> astype_str(cells[i])]
         is_multi_value ==
           \E i \in 1..Len(column_data) : str_contains(column_data[i], <<"|">>)
     IN \E counted \in value_counts(Exploded(column_data, is_multi_value)) :
          LET unique_values == head(counted, top_threshold)
          IN /\ encoded_columns_info' =
                  [top_values |->
                     Append(encoded_columns_info.top_values,
                            [col |-> col, values |-> unique_values]),
                   multi_value_columns |->
                     IF is_multi_value
                     THEN Append(encoded_columns_info.multi_value_columns, col)
                     ELSE encoded_columns_info.multi_value_columns]
             /\ one_hot_columns' = one_hot_columns \o
                  [j \in 1..Len(unique_values) |->
                     [name |-> col \o <<"_">> \o unique_values[j],
                      cells |-> [i \in 1..Len(column_data) |->
                                   IntCell(Indicator(column_data[i], unique_values[j],
                                                     is_multi_value))]]]
  /\ UNCHANGED <<pipelinevars, sidevars, method, table, columns_to_encode, top_threshold,
                 cpc, result_data, decoded_data, dec_k>>

\* lines 250-252: the excluded columns, then data without the encoded
\* columns, then the indicators
encoding_result(t, cols, oh) ==
  Concat(Concat(Select(t, exclude_columns), Drop(t, cols)), OneHotTable(t, oh))

\* lines 400-401: the table without the encoded columns, then the indicators
encode_and_impute_result(t, cols, oh) == Concat(Drop(t, cols), OneHotTable(t, oh))

\* the encode function returns, and decoding() is called with its results
\* (line 275: decoded_data = data.copy())
EncodeReturn ==
  /\ cpc = "encode"
  /\ Len(encoded_columns_info.top_values) = Len(columns_to_encode)
  /\ result_data' =
       IF method = "encoding"
       THEN encoding_result(table, columns_to_encode, one_hot_columns)
       ELSE encode_and_impute_result(table, columns_to_encode, one_hot_columns)
  /\ decoded_data' = result_data'
  /\ dec_k' = 0
  /\ cpc' = "decode"
  /\ UNCHANGED <<pipelinevars, sidevars, method, table, columns_to_encode, top_threshold,
                 encoded_columns_info, one_hot_columns>>

\* ------------------------------------------------------------------ decoding
\* the entry of top_values the loop of line 281 is at
Entry == encoded_columns_info.top_values[dec_k + 1]

\* [col for col in data.columns if col.startswith(f"{original_col}_")]
relevant_columns(t, original_col) ==
  Filter(t.cols, {k \in 1..Len(t.cols) : startswith(t.cols[k], original_col \o <<"_">>)})

\* decode_multi_row and decode_single_row: zip(values, row) pairs by position
decode_row(values, row, is_multi_value) ==
  LET n == Min(Len(values), Len(row))
      present_values == Filter(SubSeq(values, 1, n), {k \in 1..n : Truthy(row[k])})
  IN IF is_multi_value THEN join("|", present_values)
     ELSE IF present_values # <<>> THEN present_values[1] ELSE <<>>

InDecode == cpc = "decode" /\ dec_k < Len(encoded_columns_info.top_values)

\* line 288 is false: no column has the prefix, the column is not rebuilt
DecodeSkip ==
  /\ InDecode
  /\ relevant_columns(result_data, Entry.col) = <<>>
  /\ dec_k' = dec_k + 1
  /\ UNCHANGED <<pipelinevars, sidevars, method, table, columns_to_encode, top_threshold,
                 cpc, encoded_columns_info, one_hot_columns, result_data,
                 decoded_data>>

\* decoded_data[relevant_columns] raises KeyError: a column with the prefix
\* was dropped when an earlier column was rebuilt
DecodeRaises ==
  /\ InDecode
  /\ \E k \in 1..Len(relevant_columns(result_data, Entry.col)) :
        ColIdx(decoded_data, relevant_columns(result_data, Entry.col)[k]) = {}
  /\ cpc' = "raised"
  /\ UNCHANGED <<pipelinevars, sidevars, method, table, columns_to_encode, top_threshold,
                 encoded_columns_info, one_hot_columns, result_data, decoded_data,
                 dec_k>>

\* lines 288-336: the column is rebuilt from the columns with its prefix, and
\* those are dropped
DecodeColumn ==
  /\ InDecode
  /\ relevant_columns(result_data, Entry.col) # <<>>
  /\ \A k \in 1..Len(relevant_columns(result_data, Entry.col)) :
        ColIdx(decoded_data, relevant_columns(result_data, Entry.col)[k]) # {}
  /\ LET relevant == relevant_columns(result_data, Entry.col)
         rows == Select(decoded_data, relevant).rows
         decoded_column ==
           [cols |-> <<Entry.col>>,
            rows |-> [i \in 1..Len(rows) |->
                        <<StrCell(decode_row(Entry.values, rows[i],
                             Entry.col \in Range(encoded_columns_info.multi_value_columns)))>>]]
     IN decoded_data' = Drop(Concat(decoded_data, decoded_column), relevant)
  /\ dec_k' = dec_k + 1
  /\ UNCHANGED <<pipelinevars, sidevars, method, table, columns_to_encode, top_threshold,
                 cpc, encoded_columns_info, one_hot_columns, result_data>>

\* line 338
DecodeReturn ==
  /\ cpc = "decode"
  /\ dec_k = Len(encoded_columns_info.top_values)
  /\ cpc' = "done"
  /\ UNCHANGED <<pipelinevars, sidevars, method, table, columns_to_encode, top_threshold,
                 encoded_columns_info, one_hot_columns, result_data, decoded_data,
                 dec_k>>

CodecNext ==
  \/ EncodeColumn
  \/ EncodeReturn
  \/ DecodeSkip
  \/ DecodeRaises
  \/ DecodeColumn
  \/ DecodeReturn

CodecSpec == CodecInit /\ [][CodecNext]_vars

\* ========================================================= the parse functions
\* split_date_and_place(), parse_duration() and parse_money() are applied cell
\* by cell (lines 579-590); each is modelled as a call of its own on one
\* value: a text (a sequence of characters) or None.
MaxPieces == 3      \* pieces a generated text is made of

Digits == <<"0", "1", "2", "3", "4", "5", "6", "7", "8", "9">>
IsDigit(ch) == ch \in Range(Digits)
IsSpace(ch) == ch = " "

\* the texts the values are made of (no two of them make a run of more than
\* six digits)
Pieces ==
  { <<"y", "1", "9", "9", "9">>, <<" ", "(">>, <<"U", "S", ")">>, <<")">>,
    <<"N", "/", "A">>, <<" ">>, <<"2", "h">>, <<"1", "5", "m">>,
    <<"$">>, <<"1", ",", "0">>, <<"x">> }

RECURSIVE Flatten(_)
Flatten(ss) == IF ss = <<>> THEN <<>> ELSE Head(ss) \o Flatten(Tail(ss))

Values == {StrCell(Flatten(ps)) : ps \in SeqsUpTo(Pieces, MaxPieces)} \cup {NoneCell}

Returned(v) == [kind |-> "returned", val |-> v]
Raised(e) == [kind |-> "raised", exc |-> e]
NanCell == [kind |-> "nan"]
PairCell(a, b) == [kind |-> "tuple", date |-> a, place |-> b]

\* str.lower(), on the letters of the model
lower(s) ==
  [i \in 1..Len(s) |->
     CASE s[i] = "N" -> "n" [] s[i] = "A" -> "a" [] s[i] = "U" -> "u"
       [] s[i] = "S" -> "s" [] OTHER -> s[i]]

\* str.strip()
strip(s) ==
  IF \A i \in 1..Len(s) : IsSpace(s[i]) THEN <<>>
  ELSE LET a == CHOOSE i \in 1..Len(s) :
                  ~IsSpace(s[i]) /\ \A j \in 1..(i - 1) : IsSpace(s[j])
           b == CHOOSE i \in 1..Len(s) :
                  ~IsSpace(s[i]) /\ \A j \in (i + 1)..Len(s) : IsSpace(s[j])
       IN SubSeq(s, a, b)

\* str.replace(ch, '')
remove(s, ch) == Filter(s, {i \in 1..Len(s) : s[i] # ch})

\* str.split(): the runs of characters that are not white space
words(s) ==
  LET starts == {i \in 1..Len(s) : ~IsSpace(s[i]) /\ (i = 1 \/ IsSpace(s[i - 1]))}
      EndOf(i) == CHOOSE e \in i..Len(s) :
                    /\ \A j \in i..e : ~IsSpace(s[j])
                    /\ (e = Len(s) \/ IsSpace(s[e + 1]))
      Nth(k) == CHOOSE i \in starts : Cardinality({j \in starts : j < i}) = k - 1
  IN [k \in 1..Cardinality(starts) |-> SubSeq(s, Nth(k), EndOf(Nth(k)))]

RECURSIVE int(_)
\* int(s) of a text of digits
int(s) ==
  IF s = <<>> THEN 0
  ELSE 10 * int(SubSeq(s, 1, Len(s) - 1))
       + (CHOOSE d \in 0..9 : Digits[d + 1] = s[Len(s)])

\* int(s) raises ValueError
NotAnInt(s) == s = <<>> \/ \E i \in 1..Len(s) : ~IsDigit(s[i])

\* the end of the longest run of digits that begins at position i of s
\* (i - 1 when there is none)
DigitsEnd(s, i) ==
  CHOOSE e \in (i - 1)..Len(s) :
     /\ \A j \in i..e : IsDigit(s[j])
     /\ (e = Len(s) \/ ~IsDigit(s[e + 1]))

\* re.match(r'^(.*\d{4}) \((.*)\)$', s): the lengths group 1 can have
DateEnds(s) ==
  {k \in 4..(Len(s) - 3) :
     /\ \A j \in (k - 3)..k : IsDigit(s[j])
     /\ s[k + 1] = " " /\ s[k + 2] = "(" /\ s[Len(s)] = ")"}

\* lines 87-120
split_date_and_place(date_str) ==
  IF date_str.kind # "str" THEN Returned(PairCell(NoneCell, NoneCell))
  ELSE IF lower(strip(date_str.text)) = <<"n", "/", "a">>
  THEN Returned(PairCell(NoneCell, NoneCell))
  ELSE LET s == date_str.text
           ends == DateEnds(s)
       IN IF ends = {} THEN Raised("UnboundLocalError")
          ELSE LET k == CHOOSE k \in ends : \A j \in ends : j <= k
                   group1 == SubSeq(s, 1, k)
                   group2 == SubSeq(s, k + 3, Len(s) - 1)
               IN IF group2 # <<>>
                  THEN Returned(PairCell(StrCell(group1), StrCell(group2)))
                  ELSE Returned(PairCell(StrCell(group1), NoneCell))

\* lines 123-146: "duration is not str" holds of every value, and
\* re.match(r'(?:(\d+)h)? ?(?:(\d+)m)?', ...) matches every text
parse_duration(duration) ==
  LET s == astype_str(duration)
      e1 == DigitsEnd(s, 1)
      has_h == e1 >= 1 /\ e1 < Len(s) /\ s[e1 + 1] = "h"
      p1 == IF has_h THEN e1 + 2 ELSE 1
      p2 == IF p1 <= Len(s) /\ s[p1] = " " THEN p1 + 1 ELSE p1
      e2 == DigitsEnd(s, p2)
      has_m == e2 >= p2 /\ e2 < Len(s) /\ s[e2 + 1] = "m"
      hours == IF has_h THEN int(SubSeq(s, 1, e1)) ELSE 0
      minutes == IF has_m THEN int(SubSeq(s, p2, e2)) ELSE 0
  IN Returned(IntCell(hours * 60 + minutes))

\* lines 148-164
parse_money(v) ==
  IF v.kind = "str" /\ startswith(v.text, <<"$">>)
  THEN LET w == words(remove(remove(v.text, "$"), ","))
       IN IF w = <<>> THEN Raised("IndexError")
          ELSE IF NotAnInt(w[1]) THEN Raised("ValueError")
          ELSE Returned(IntCell(int(w[1])))
  ELSE Returned(NanCell)

ParseInit ==
  /\ value \in Values
  /\ called = "" /\ outcome = NoOutcome
  /\ PipelineIdle /\ CodecIdle /\ CrawlIdle

Apply(name, result) ==
  /\ called = ""
  /\ called' = name
  /\ outcome' = result
  /\ UNCHANGED <<pipelinevars, codecvars, crawlvars, value>>

CallSplitDateAndPlace == Apply("split_date_and_place", split_date_and_place(value))
CallParseDuration == Apply("parse_duration", parse_duration(value))
CallParseMoney == Apply("parse_money", parse_money(value))

ParseNext == CallSplitDateAndPlace \/ CallParseDuration \/ CallParseMoney

ParseSpec == ParseInit /\ [][ParseNext]_vars

\* ================================================================ the crawler
\* crawling_with_time_limit() of src/web-crawling.py, run as the script runs
\* it (method = 'requests', so driver is None).  The two files are the
\* sequences of IMDb IDs of their rows.  A crawl of an ID either succeeds or
\* raises; the clock reaching max_seconds is an event of its own.
MaxIds == 3         \* IMDb IDs there are
MaxMovies == 2      \* largest number_of_movies tried
MaxFailures == 1    \* crawls that raise within a run

BiasLimit == 50     \* the 50 of "bias < 50"

IDS == {"tt" \o ToString(i) : i \in 1..MaxIds}
NoDuplicates(s) == \A i, j \in 1..Len(s) : i # j => s[i] # s[j]
DistinctSeqs(S) == {s \in SeqsUpTo(S, Cardinality(S)) : NoDuplicates(s)}

CrawlInit ==
  /\ ids_file \in DistinctSeqs(IDS)
  /\ crawled_file \in DistinctSeqs(IDS)
  /\ number_of_movies \in 1..MaxMovies
  /\ expired = FALSE /\ failures = 0
  /\ wpc = "outer"
  /\ crawled_data_df = <<>> /\ imdb_ids_df = <<>>
  /\ bias = 0 /\ success = FALSE /\ list_of_error_imdb_ids = <<>>
  /\ pass_ended = FALSE
  /\ target = "" /\ loop_ids = <<>> /\ it = 1
  /\ error_id = <<>> /\ first_time = TRUE
  /\ attempted = <<>> /\ failed = <<>> /\ cont_returned = FALSE
  /\ PipelineIdle /\ CodecIdle /\ ParseIdle

\* get_remaining_imdb_ids (lines 982-1003), as a set: the list is made of a
\* set and has no order of its own
get_remaining_imdb_ids(ids, crawled) ==
  IF ids = <<>> \/ crawled = <<>> THEN {}
  ELSE Range(ids) \ Range(crawled)

\* what get_imdb_ids may append to the IDs file: IDs the file does not hold
\* yet, each once (as few as none)
NewIds(ids) == DistinctSeqs(IDS \ Range(ids))

\* the clock reaches max_seconds
TimePasses ==
  /\ wpc # "stopped" /\ ~expired
  /\ expired' = TRUE
  /\ UNCHANGED <<pipelinevars, codecvars, parsevars, cfilevars, webvars, loopvars,
                 number_of_movies, failures, wpc>>

\* lines 1208-1211
OuterStop ==
  /\ wpc = "outer" /\ expired
  /\ wpc' = "stopped"
  /\ UNCHANGED <<pipelinevars, codecvars, parsevars, cfilevars, webvars, loopvars, envvars>>

\* line 1214 and lines 1088-1128: web_crawling is called and reads the files
OuterCall ==
  /\ wpc = "outer" /\ ~expired
  /\ crawled_data_df' = crawled_file /\ imdb_ids_df' = ids_file
  /\ bias' = 0 /\ success' = FALSE /\ list_of_error_imdb_ids' = <<>>
  /\ pass_ended' = FALSE
  /\ wpc' = "web"
  /\ UNCHANGED <<pipelinevars, codecvars, parsevars, cfilevars, loopvars, envvars>>

\* the condition of line 1129 and the test of line 1133
InLoop ==
  /\ wpc = "web"
  /\ Len(crawled_data_df) < number_of_movies /\ bias < BiasLimit
  /\ ~expired

\* lines 1129-1135, 1177-1182 and 1215-1217: the loop is left, web_crawling
\* returns, and crawling_with_time_limit stops if success is set
WebReturn ==
  /\ wpc = "web" /\ ~InLoop
  /\ wpc' = IF success THEN "stopped" ELSE "outer"
  /\ UNCHANGED <<pipelinevars, codecvars, parsevars, cfilevars, webvars, loopvars, envvars>>

\* lines 1136-1164: a pass begins; IDs are fetched if the IDs table is
\* empty, and run_crawling or continue_crawling is entered.  With both
\* tables empty run_crawling is given the DataFrame crawled_data_df, not the
\* file, as its output file (line 1139).
WebPass ==
  /\ InLoop
  /\ \E new \in NewIds(ids_file) :
       /\ ids_file' = IF imdb_ids_df = <<>> THEN ids_file \o new ELSE ids_file
       /\ LET remain == get_remaining_imdb_ids(ids_file', crawled_file)
              both_empty == crawled_data_df = <<>> /\ imdb_ids_df = <<>>
          IN IF both_empty \/ remain = {}
             THEN /\ wpc' = "run"
                  /\ target' = IF both_empty THEN "crawled_data_df" ELSE "crawled_data_file"
                  /\ loop_ids' = ids_file'
             ELSE /\ wpc' = "cont"
                  /\ target' = "crawled_data_file"
                  /\ loop_ids' \in {s \in DistinctSeqs(remain) : Len(s) = Cardinality(remain)}
  /\ it' = 1 /\ error_id' = <<>> /\ first_time' = TRUE
  /\ attempted' = <<>> /\ failed' = <<>> /\ cont_returned' = FALSE
  /\ pass_ended' = FALSE
  /\ UNCHANGED <<pipelinevars, codecvars, parsevars, crawled_file, crawled_data_df,
                 imdb_ids_df, bias, success, list_of_error_imdb_ids, envvars>>

\* lines 1174-1176: the tables are read again
Reread ==
  /\ crawled_data_df' = crawled_file /\ imdb_ids_df' = ids_file
  /\ wpc' = "web"

\* lines 1165-1167 and 1174-1176: the pass ends; the test of line 1165 reads
\* crawled_data_df as it was read before the pass
PassEnd ==
  /\ pass_ended' = TRUE
  /\ IF Len(crawled_data_df) >= number_of_movies
     THEN /\ success' = TRUE /\ wpc' = "stopped"
          /\ UNCHANGED <<crawled_data_df, imdb_ids_df>>
     ELSE /\ Reread
          /\ UNCHANGED success
  /\ UNCHANGED <<bias, list_of_error_imdb_ids>>

\* lines 1168-1172: the handler calls continue_crawling without start_time.
\* With nothing remaining it returns [] and the pass ends; otherwise line 1040
\* raises TypeError, web_crawling is left, and line 1218 catches it.
Handler ==
  IF get_remaining_imdb_ids(ids_file, crawled_file) = {}
  THEN /\ list_of_error_imdb_ids' = list_of_error_imdb_ids \o <<>>
       /\ bias' = bias + 1
       /\ pass_ended' = TRUE
       /\ Reread
       /\ UNCHANGED success
  ELSE /\ wpc' = "outer"
       /\ UNCHANGED webvars

\* the loop of run_crawling or continue_crawling goes on (lines 949-957,
\* 1039-1045)
Reached(pcv) ==
  /\ wpc = pcv /\ it <= Len(loop_ids) /\ ~expired
  /\ pcv = "run" => it - 1 < number_of_movies

\* lines 958-961 and 746-756: the ID is crawled and its row appended
RunSaves ==
  /\ Reached("run")
  /\ target = "crawled_data_file"
  /\ crawled_file' = Append(crawled_file, loop_ids[it])
  /\ it' = it + 1
  /\ UNCHANGED <<pipelinevars, codecvars, parsevars, ids_file, webvars, envvars, wpc,
                 target, loop_ids, error_id, first_time, attempted, failed,
                 cont_returned>>

\* line 960 raises: the crawl fails, or open() is given the DataFrame
RunRaises ==
  /\ Reached("run")
  /\ \/ failures < MaxFailures /\ failures' = failures + 1
     \/ target = "crawled_data_df" /\ failures' = failures
  /\ Handler
  /\ UNCHANGED <<pipelinevars, codecvars, parsevars, cfilevars, loopvars,
                 number_of_movies, expired>>

\* lines 963-964: run_crawling returns
RunEnd ==
  /\ wpc = "run" /\ ~Reached("run")
  /\ PassEnd
  /\ UNCHANGED <<pipelinevars, codecvars, parsevars, cfilevars, loopvars, envvars>>

\* lines 1047-1049: the first ID is put on the error list, not crawled
ContSkipsFirst ==
  /\ Reached("cont") /\ first_time
  /\ first_time' = FALSE
  /\ error_id' = Append(error_id, loop_ids[it])
  /\ it' = it + 1
  /\ UNCHANGED <<pipelinevars, codecvars, parsevars, cfilevars, webvars, envvars, wpc,
                 target, loop_ids, attempted, failed, cont_returned>>

\* lines 1051-1054, 1058-1059
ContSaves ==
  /\ Reached("cont") /\ ~first_time
  /\ crawled_file' = Append(crawled_file, loop_ids[it])
  /\ attempted' = Append(attempted, loop_ids[it])
  /\ it' = it + 1
  /\ UNCHANGED <<pipelinevars, codecvars, parsevars, ids_file, webvars, envvars, wpc,
                 target, loop_ids, error_id, first_time, failed, cont_returned>>

\* lines 1055-1059: the crawl raises and the ID is put on the error list
ContCatches ==
  /\ Reached("cont") /\ ~first_time
  /\ failures < MaxFailures /\ failures' = failures + 1
  /\ error_id' = Append(error_id, loop_ids[it])
  /\ attempted' = Append(attempted, loop_ids[it])
  /\ failed' = Append(failed, loop_ids[it])
  /\ it' = it + 1
  /\ UNCHANGED <<pipelinevars, codecvars, parsevars, cfilevars, webvars, wpc,
                 number_of_movies, expired, target, loop_ids, first_time,
                 cont_returned>>

\* lines 1060-1062: continue_crawling returns error_id (lines 1147, 1156
\* and 1164 drop it)
ContEnd ==
  /\ wpc = "cont" /\ ~Reached("cont")
  /\ cont_returned' = TRUE
  /\ PassEnd
  /\ UNCHANGED <<pipelinevars, codecvars, parsevars, cfilevars, envvars, target,
                 loop_ids, it, error_id, first_time, attempted, failed>>

CrawlNext ==
  \/ TimePasses
  \/ OuterStop
  \/ OuterCall
  \/ WebReturn
  \/ WebPass
  \/ RunSaves
  \/ RunRaises
  \/ RunEnd
  \/ ContSkipsFirst
  \/ ContSaves
  \/ ContCatches
  \/ ContEnd

CrawlSpec == CrawlInit /\ [][CrawlNext]_vars

\* =================================================================== claims
Returning == pc \in {"write_good", "write_bad"}
IdOf(r) == r.cells["IMDb ID"]
Ids(d) == {IdOf(d[i]) : i \in 1..Len(d)}

\* index labels the outlier test flagged, on any column, and their rows' ids
FlaggedIdx ==
  UNION {{outliers[c][k].idx : k \in 1..Len(outliers[c])} : c \in Range(numerical_columns)}
FlaggedIds == {IdOf(data[i]) : i \in {j \in 1..Len(data) : data[j].idx \in FlaggedIdx}}

\* the lines this run has added to a file
AppendedTo(file, existed) ==
  SubSeq(file, (IF existed THEN Len(OldFile) ELSE 0) + 1, Len(file))
AppendedGood == AppendedTo(good_file, good_existed)
AppendedBad == AppendedTo(bad_file, bad_existed)
RowLines(s) == Filter(s, {i \in 1..Len(s) : s[i].kind = "row"})
LineIds(s) == {RowLines(s)[i].cells["IMDb ID"] : i \in 1..Len(RowLines(s))}

\* C1: when preprocessing_chunk returns, the rows it returns as good plus the
\* rows it returns as bad are as many as the rows of the chunk after
\* duplicate removal.
C1_RowsConserved ==
  Returning => Len(good_chunk) + Len(bad_chunk) = Len(data)

\* C2: no row the outlier test flagged (on any configured column) is in the
\* good partition preprocessing_chunk returns, nor among the lines then
\* appended to the good output.
C2_NoFlaggedRowInGood ==
  /\ Returning => \A i \in 1..Len(good_chunk) : good_chunk[i].idx \notin FlaggedIdx
  /\ pc = "write_bad" =>
       LineIds(SubSeq(good_file, Len(good_file) - Len(good_chunk) + 1, Len(good_file)))
         \cap FlaggedIds = {}

\* C3: every row the outlier test flagged is in the bad partition
\* preprocessing_chunk returns (and so among the lines appended to the bad
\* output).
C3_FlaggedRowsInBad ==
  Returning => FlaggedIds \subseteq Ids(bad_chunk)

\* safe_impute_missing_values is about to return (line 501)
ImputeDone == pc = "impute" /\ iteration >= max_iter

\* C4: when safe_impute_missing_values returns after max_iter passes, a
\* column of its result still holds a missing value only if no row of its
\* input had a value in that column.
C4_NoMissingLeft ==
  ImputeDone =>
    \A c \in Range(columns) :
       AnyNull(impute_data, c) => Observed(BadSlice, c) = <<>>

\* a column that had both missing and observed values has been filled
C4_Witness ==
  /\ ImputeDone
  /\ \E c \in Range(columns) :
        /\ AnyNull(BadSlice, c)
        /\ Observed(BadSlice, c) # <<>>
        /\ ~AnyNull(impute_data, c)

\* C5: safe_impute_missing_values never raises to its caller, whatever stops
\* the training of a column (no row with the target, a learner error).
C5_FallbackNeverRaises ==
  raised # "safe_impute_missing_values"

\* C6: the rows a learner is trained on for a target column are the rows of
\* the whole chunk (good and bad together) that have the target.
C6_TrainsOnUnion ==
  fit_col # "" =>
    Ids(X_train) = {IdOf(data[i]) : i \in complete_mask(data, fit_col)}

HeaderCount(s) == Cardinality({i \in 1..Len(s) : s[i].kind = "header"})
\* the chunks whose append to the good (bad) file is complete
GoodWrites == Len(returned) - (IF pc = "write_good" THEN 1 ELSE 0)
BadWrites == Len(returned) - (IF Returning THEN 1 ELSE 0)

HeaderOnce(app, existed, writes) ==
  /\ HeaderCount(app) <= 1
  /\ writes = 0 => app = <<>>
  /\ writes >= 1 => ((app # <<>> /\ app[1].kind = "header") <=> ~existed)
  /\ \A i \in 2..Len(app) : app[i].kind = "row"

\* C7: a run adds at most one header line to each output file: it is the
\* first line the run adds, written with the first chunk, exactly when the
\* file did not exist at the start; all other lines added are rows.
C7_HeaderAtMostOnce ==
  /\ HeaderOnce(AppendedGood, good_existed, GoodWrites)
  /\ HeaderOnce(AppendedBad, bad_existed, BadWrites)

\* a finished run of several chunks, one file new and one file old
C7_Witness ==
  /\ pc = "done"
  /\ Len(returned) >= 2
  /\ ~good_existed /\ bad_existed
  /\ HeaderCount(AppendedGood) = 1
  /\ HeaderCount(AppendedBad) = 0

Cells(s) == [i \in 1..Len(s) |-> s[i].cells]
RECURSIVE GoodCellsUpTo(_)
GoodCellsUpTo(n) ==
  IF n = 0 THEN <<>> ELSE GoodCellsUpTo(n - 1) \o Cells(returned[n].good)
RECURSIVE BadCellsUpTo(_)
BadCellsUpTo(n) ==
  IF n = 0 THEN <<>> ELSE BadCellsUpTo(n - 1) \o Cells(returned[n].bad)

\* C8: at every point between the two appends of one chunk being complete
\* and the first append of the next chunk (a stop by an exception included),
\* the rows the run has added to the good and to the bad file are the
\* results of the chunks written so far, in input order, and nothing else.
C8_DurableAtChunkBoundary ==
  pc # "write_bad" =>
    /\ Cells(RowLines(AppendedGood)) = GoodCellsUpTo(BadWrites)
    /\ Cells(RowLines(AppendedBad)) = BadCellsUpTo(BadWrites)

\* the run stopped by an exception after an earlier chunk was written
C8_Witness ==
  /\ pc = "raised"
  /\ BadWrites >= 1
  /\ RowLines(AppendedGood) # <<>>

\* C9: the chunks taken are consecutive slices of the dataset in input
\* order, each of 1..chunk_size rows, all but the last of exactly chunk_size
\* rows, a shorter one only at the end of the dataset; a run that finishes
\* has put every row in exactly one chunk.
C9_Chunking ==
  LET f == Flatten(chunks)
      n == Len(chunks)
  IN /\ \A j \in 1..n : Len(chunks[j]) \in 1..chunk_size
     /\ \A j \in 1..(n - 1) : Len(chunks[j]) = chunk_size
     /\ Len(f) <= Len(df)
     /\ f = SubSeq(df, 1, Len(f))
     /\ (n > 0 /\ Len(chunks[n]) < chunk_size) => f = df
     /\ pc = "done" => f = df

\* a finished run of several chunks whose last chunk is short
C9_Witness ==
  /\ pc = "done"
  /\ Len(chunks) >= 2
  /\ Len(chunks[Len(chunks)]) < chunk_size

\* C10: no row of the good partition returned for a chunk, and no row line
\* added to the good file, has a missing field; a row of the normalized
\* chunk with a missing field is not in the good partition.
C10_GoodComplete ==
  /\ \A i \in 1..Len(good_chunk) : ~HasNull(good_chunk[i])
  /\ Returning =>
       \A j \in 1..Len(data) : HasNull(data[j]) => IdOf(data[j]) \notin Ids(good_chunk)
  /\ \A i \in 1..Len(AppendedGood) :
       AppendedGood[i].kind = "row" => ~HasNull(AppendedGood[i])

\* a chunk is returned with good rows, and a row whose Genre was the flag
\* "N/A" is missing that field after normalization
C10_Witness ==
  /\ Returning
  /\ good_chunk # <<>>
  /\ \E j \in 1..Len(data) :
        /\ HasNull(data[j])
        /\ \E k \in 1..Len(chunks[Len(chunks)]) :
              /\ chunks[Len(chunks)][k].idx = data[j].idx
              /\ chunks[Len(chunks)][k].cells["Genre"] = "N/A"

\* the value a row of the returned good partition had before scaling
RawVal(r, c) ==
  Val((CHOOSE d \in Range(data) : d.idx = r.idx).cells[c])
RawVals(d, c) == {RawVal(d[i], c) : i \in 1..Len(d)}
InUnitInterval(cell) == cell[2] > 0 /\ 0 <= cell[1] /\ cell[1] <= cell[2]

C17_ExactlyMaxIterPasses ==
  /\ iteration <= max_iter
  /\ (pc \in {"detect", "write_good", "write_bad"} /\ pl_bad_data # <<>>)
       => iteration = max_iter
  /\ raised = "safe_impute_missing_values" => iteration = max_iter

\* C18: within a pass the numeric target columns come before the categorical
\* ones, so when a classifier is trained for a categorical column its
\* training rows already hold, in every numeric column that had a value to
\* learn from, the values filled earlier in the pass.
C18_NumericBeforeCategorical ==
  /\ InPass =>
       \A j \in 1..(col_i - 1) : IsNumeric(TargetCol) => IsNumeric(ImputeOrder[j])
  /\ (pc = "impute" /\ fit_col \in Range(categorical_columns)) =>
       \A c \in Range(numeric_columns) :
          Observed(BadSlice, c) # <<>> =>
             \A i \in 1..Len(X_train) : notnull(c, X_train[i].cells[c])

\* a classifier was trained on a row whose numeric field was missing in the
\* input and was filled earlier in the pass
C18_Witness ==
  /\ pc = "impute"
  /\ fit_col \in Range(categorical_columns)
  /\ \E i \in 1..Len(X_train) : \E c \in Range(numeric_columns) :
        /\ notnull(c, X_train[i].cells[c])
        /\ \E k \in 1..Len(BadSlice) :
              /\ BadSlice[k].idx = X_train[i].idx
              /\ isnull(c, BadSlice[k].cells[c])

\* n^2 times the sum of the squared deviations of vs from their mean
ScaledSquaredDeviations(vs) ==
  LET n == Len(vs)
      S == SumSeq(vs)
  IN SumSeq([i \in 1..n |-> (n * vs[i] - S) * (n * vs[i] - S)])

\* |x - mean(gs)| > 3 * std(ds), std being the sample standard deviation
\* sqrt(sum of squared deviations / (n - 1)); both sides squared and
\* multiplied by Len(gs)^2 * Len(ds)^2 * (Len(ds) - 1)
BeyondThreeSigma(x, gs, ds) ==
  LET ng == Len(gs)
      nd == Len(ds)
      dev == ng * x - SumSeq(gs)
  IN /\ nd >= 2
     /\ dev * dev * nd * nd * (nd - 1) > 3 * 3 * ScaledSquaredDeviations(ds) * ng * ng

\* C19: a row of the good partition (the complete rows of the chunk) is
\* flagged on a configured numeric column if and only if its value differs
\* from the column mean over the good partition by more than three times
\* the column's standard deviation over the whole chunk, good and bad rows.
C19_FlaggedIffBeyondThreeSigma ==
  Returning =>
    \A c \in Range(numerical_columns) :
       LET good == dropna(data)
           gs == Vals(Column(good, c))
           ds == Vals(Observed(data, c))
       IN {outliers[c][k].idx : k \in 1..Len(outliers[c])}
            = {good[i].idx : i \in {j \in 1..Len(good) : BeyondThreeSigma(gs[j], gs, ds)}}

\* a row is flagged and another is not, in a chunk whose incomplete rows
\* add values to the column's standard deviation
C19_Witness ==
  /\ Returning
  /\ \E c \in Range(numerical_columns) :
        /\ outliers[c] # <<>>
        /\ Len(outliers[c]) < Len(dropna(data))
        /\ Len(Observed(data, c)) > Len(dropna(data))

\* a chunk some row of which has no evaluable parental guide
Unreadable(chunk) ==
  \E i \in 1..Len(chunk) :
     IF ParentalGuide \in DOMAIN chunk[i].cells
     THEN chunk[i].cells[ParentalGuide] # EmptyGuide
     ELSE TRUE
LastChunk == chunks[Len(chunks)]

\* C20: a chunk with a structural failure (the Parental Guide column absent,
\* or a guide that cannot be evaluated) is aborted: the run ends there with
\* the error, nothing is returned or appended for that chunk, and the rows
\* added to the two files are those of the earlier chunks.
C20_StructuralFailureAborts ==
  /\ (chunks # <<>> /\ Unreadable(LastChunk)) =>
        /\ pc = "raised"
        /\ raised = "preprocessing_chunk"
  /\ raised = "preprocessing_chunk" =>
        /\ ~ENABLED Next
        /\ Len(returned) = Len(chunks) - 1
        /\ Cells(RowLines(AppendedGood)) = GoodCellsUpTo(Len(chunks) - 1)
        /\ Cells(RowLines(AppendedBad)) = BadCellsUpTo(Len(chunks) - 1)

\* a chunk with a guide that cannot be evaluated ended the run after an
\* earlier chunk had been appended
C20_Witness ==
  /\ raised = "preprocessing_chunk"
  /\ \E i \in 1..Len(LastChunk) :
        /\ ParentalGuide \in DOMAIN LastChunk[i].cells
        /\ LastChunk[i].cells[ParentalGuide] = BrokenGuide
  /\ Len(chunks) >= 2
  /\ RowLines(AppendedGood) # <<>>

\* ------------------------------------------------------------ codec claims
TopValues == encoded_columns_info.top_values
IsMulti(col) == col \in Range(encoded_columns_info.multi_value_columns)
EncodeReturned == cpc \in {"decode", "done", "raised"}
\* the stringified cells of a column of the table given to encode
StrColumn(col) ==
  [i \in 1..Len(table.rows) |-> astype_str(ColumnOf(table, col)[i])]
IndicatorName(col, v) == col \o <<"_">> \o v
\* the values counted for a column: the cells, or their parts when the
\* column was recorded as multi-valued
Counted(col) ==
  IF IsMulti(col)
  THEN explode([i \in 1..Len(table.rows) |-> split(StrColumn(col)[i], "|")])
  ELSE StrColumn(col)
\* the cell decoding() left in row i of the rebuilt column
DecodedText(col, i) == ColumnOf(decoded_data, col)[i].text
\* the indicator encode made for value v of column col, in row i
OwnIndicator(col, v, i) ==
  (CHOOSE oh \in Range(one_hot_columns) : oh.name = IndicatorName(col, v)).cells[i].num

\* C12: encoding a table and decoding the result with the dictionary of that
\* encode never fails and gives back, in every row of every encoded column,
\* the retained values of the original cell and nothing else: the cell
\* itself when it is one retained value, the empty string when no value of
\* the cell is retained.
C12_RoundTrip ==
  /\ cpc # "raised"
  /\ cpc = "done" =>
       \A k \in 1..Len(TopValues) : \A i \in 1..Len(table.rows) :
          LET e == TopValues[k]
              orig == StrColumn(e.col)[i]
              parts == IF IsMulti(e.col) THEN split(orig, "|") ELSE <<orig>>
              kept == Range(parts) \cap Range(e.values)
          IN /\ ColIdx(decoded_data, e.col) # {}
             /\ kept = {} => DecodedText(e.col, i) = <<>>
             /\ kept # {} => Range(split(DecodedText(e.col, i), "|")) = kept
             /\ (kept # {} /\ Len(parts) = 1) => DecodedText(e.col, i) = orig

\* C13: a column is recorded as multi-valued if and only if '|' occurs in at
\* least one of its stringified values.
C13_MultiValuedIffDelimiter ==
  \A k \in 1..Len(TopValues) :
     IsMulti(TopValues[k].col)
       <=> \E i \in 1..Len(table.rows) : "|" \in Range(StrColumn(TopValues[k].col)[i])

\* C14: what encode returns has every column it does not encode exactly once
\* with its cells unchanged, none of the columns it encodes, one indicator
\* column "<column>_<value>" per retained value and no other column, and as
\* many rows as the input, in the same order.
C14_EncodeFrame ==
  EncodeReturned =>
    LET left == Range(table.cols) \ Range(columns_to_encode)
    IN /\ \A name \in left :
             /\ Cardinality(ColIdx(result_data, name)) = 1
             /\ ColumnOf(result_data, name) = ColumnOf(table, name)
       /\ \A name \in Range(columns_to_encode) : ColIdx(result_data, name) = {}
       /\ \A k \in 1..Len(TopValues) : \A j \in 1..Len(TopValues[k].values) :
             Cardinality(ColIdx(result_data,
                IndicatorName(TopValues[k].col, TopValues[k].values[j]))) = 1
       /\ Len(result_data.cols)
            = Cardinality(left)
              + SumSeq([k \in 1..Len(TopValues) |-> Len(TopValues[k].values)])
       /\ Len(result_data.rows) = Len(table.rows)

FirstSeen(s, v) == CHOOSE a \in 1..Len(s) : s[a] = v /\ \A b \in 1..(a - 1) : s[b] # v

\* what C15 says of the order and the cut of one retained list
MostFrequentFirst(col, values) ==
  LET counted == Counted(col)
  IN /\ Len(values) <= top_threshold
     /\ \A i, j \in 1..Len(values) : i # j => values[i] # values[j]
     /\ \A i \in 1..Len(values) : values[i] \in Range(counted)
     /\ \A i, j \in 1..Len(values) :
           i < j => Count(counted, values[i]) >= Count(counted, values[j])
     /\ \A v \in Range(values) : \A w \in Range(counted) \ Range(values) :
           Count(counted, w) <= Count(counted, v)

C16_DecodeFromOwnIndicators ==
  /\ cpc # "raised"
  /\ cpc = "done" =>
       /\ \A k \in 1..Len(TopValues) : \A i \in 1..Len(table.rows) :
             LET e == TopValues[k]
                 present == Filter(e.values, {j \in 1..Len(e.values) :
                                                OwnIndicator(e.col, e.values[j], i) = 1})
             IN /\ ColIdx(decoded_data, e.col) # {}
                /\ DecodedText(e.col, i) =
                     IF present = <<>> THEN <<>>
                     ELSE IF IsMulti(e.col) THEN join("|", present)
                     ELSE present[1]
       /\ \A c \in 1..Len(result_data.cols) :
             (\A j \in 1..Len(one_hot_columns) :
                 one_hot_columns[j].name # result_data.cols[c])
               => ColIdx(decoded_data, result_data.cols[c]) # {}

\* ------------------------------------------------------ the parse functions
NothingPair == Returned(PairCell(NoneCell, NoneCell))
IsNAToken(v) == v.kind = "str" /\ lower(strip(v.text)) = <<"n", "/", "a">>

\* the ways to read s as "<text ending in a 4-digit year> (<place>)"
DatePlaceReadings(s) ==
  {dp \in {<<SubSeq(s, 1, k), SubSeq(s, k + 3, Len(s) - 1)>> : k \in 4..(Len(s) - 3)} :
     /\ s = dp[1] \o <<" ", "(">> \o dp[2] \o <<")">>
     /\ \A j \in (Len(dp[1]) - 3)..Len(dp[1]) : IsDigit(dp[1][j])}

\* C21: split_date_and_place returns (None, None), without raising, for the
\* token "n/a" in any letter case and for every value that does not have the
\* form "<text ending in a 4-digit year> (<place>)", and returns the date and
\* the place of a value that has it (an empty place counts as missing).
C21_SplitDateAndPlaceTotal ==
  called = "split_date_and_place" =>
     IF IsNAToken(value) \/ value.kind # "str" THEN outcome = NothingPair
     ELSE IF DatePlaceReadings(value.text) = {} THEN outcome = NothingPair
     ELSE /\ outcome.kind = "returned"
          /\ \E dp \in DatePlaceReadings(value.text) :
                /\ outcome.val.date = StrCell(dp[1])
                /\ outcome.val.place = IF dp[2] = <<>> THEN NoneCell ELSE StrCell(dp[2])

IsToken(t, unit) ==
  /\ Len(t) >= 2 /\ t[Len(t)] = unit
  /\ \A i \in 1..(Len(t) - 1) : IsDigit(t[i])
TokenValue(t) == IF t = <<>> THEN 0 ELSE int(SubSeq(t, 1, Len(t) - 1))

\* the ways to read s as an optional "<h>h" and an optional "<m>m", at least
\* one of them there, with a blank between the two
DurationReadings(s) ==
  {hm \in UNION {{<<SubSeq(s, 1, i), SubSeq(s, j, Len(s))>> : j \in {i + 1, i + 2}} :
                   i \in 0..Len(s)} :
     /\ hm[1] = <<>> \/ IsToken(hm[1], "h")
     /\ hm[2] = <<>> \/ IsToken(hm[2], "m")
     /\ hm[1] # <<>> \/ hm[2] # <<>>
     /\ \/ s = hm[1] \o hm[2]
        \/ hm[1] # <<>> /\ hm[2] # <<>> /\ s = hm[1] \o <<" ">> \o hm[2]}

\* C22: parse_duration returns 60*h + m for a text made of an optional "<h>h"
\* and an optional "<m>m" with at least one present, and None for the empty
\* text, for None and for every other text.
C22_ParseDuration ==
  called = "parse_duration" =>
     IF value.kind = "str" /\ DurationReadings(value.text) # {}
     THEN \A hm \in DurationReadings(value.text) :
             outcome = Returned(IntCell(60 * TokenValue(hm[1]) + TokenValue(hm[2])))
     ELSE outcome = Returned(NoneCell)

\* the text begins with the marker and its first word, the marker and the
\* commas taken out, is a whole number
Amount(v) == words(remove(remove(v.text, "$"), ","))
Conforming(v) ==
  /\ v.kind = "str" /\ startswith(v.text, <<"$">>)
  /\ Amount(v) # <<>> /\ ~NotAnInt(Amount(v)[1])

\* C23: parse_money never raises: it returns the amount of a text that
\* begins with '$' (the marker and the commas taken out), and NaN for every
\* other value, a number without the marker and a marker without an amount
\* included.
C23_ParseMoneyTotal ==
  called = "parse_money" =>
     IF Conforming(value) THEN outcome = Returned(IntCell(int(Amount(value)[1])))
     ELSE outcome = Returned(NanCell)

\* ------------------------------------------------------------ replace flags
\* the chunk k as line 574 receives it, and as it leaves it
BeforeFlags(k) == process_parent_guides(drop_duplicates(chunks[k]))
AfterFlags(k) == replace_flags_with_nan(BeforeFlags(k))
IsFlag(v) == \E f \in 1..Len(flags) : v = flags[f]

\* C24: replace_flags_with_nan applied to a table it was already applied to
\* changes no cell, and after one application no cell equals a flag (stated
\* of the chunk that has just been through line 574).
C24_ReplaceFlagsIdempotent ==
  pc = "bad_loop" =>
     LET once == AfterFlags(Len(chunks))
     IN /\ replace_flags_with_nan(once) = once
        /\ \A i \in 1..Len(once) : \A c \in Range(categorical_columns) :
              ~IsFlag(once[i].cells[c])

\* a chunk with a flag in it went through line 574
C24_Witness ==
  /\ pc = "bad_loop"
  /\ \E k \in {Len(chunks)} :
        /\ AfterFlags(k) # BeforeFlags(k)
        /\ \E i \in 1..Len(BeforeFlags(k)) : IsFlag(BeforeFlags(k)[i].cells["Genre"])

\* ------------------------------------------------------ the frame of imputation
\* out has the rows of inp, in order, with every observed cell as it was
Kept(inp, out) ==
  /\ Len(out) = Len(inp)
  /\ \A i \in 1..Len(inp) : \A c \in Range(columns) :
        notnull(c, inp[i].cells[c]) => out[i].cells[c] = inp[i].cells[c]

Complete(d) == \A i \in 1..Len(d) : ~HasNull(d[i])

\* C26: imputation changes only cells that were missing: the working copy of
\* safe_impute_missing_values, and what process_large_bad_data has put
\* together and returns, hold the rows they were given, in order, every
\* observed cell with its value.
C26_ImputationFrame ==
  /\ pc = "impute" => Kept(BadSlice, impute_data)
  /\ pc = "bad_loop" =>
        /\ Len(fully_imputed_data) = Min(bstart, Len(pl_bad_data))
        /\ Kept(SubSeq(pl_bad_data, 1, Len(fully_imputed_data)), fully_imputed_data)
  /\ pc = "detect" => Kept(pl_bad_data, fully_imputed_data)
  /\ pc \in {"write_good", "write_bad"} => Kept(pl_bad_data, bad_chunk)

\* two incomplete rows came back, a missing cell filled
C26_Witness ==
  /\ pc = "write_good"
  /\ Len(pl_bad_data) >= 2
  /\ \E i \in 1..Len(pl_bad_data) : \E c \in Range(columns) :
        isnull(c, pl_bad_data[i].cells[c]) /\ notnull(c, bad_chunk[i].cells[c])

C28_FilledCellsKept ==
  [][(pc = "impute" /\ pc' = "impute") =>
        /\ Kept(impute_data, impute_data')
        /\ (iteration >= 1 /\ Complete(impute_data)) => impute_data' = impute_data]_vars

\* a later pass over a table the first pass has filled
C28_Witness ==
  /\ pc = "impute"
  /\ iteration >= 2
  /\ Complete(impute_data)
  /\ ~Complete(BadSlice)

\* -------------------------------------------------------------- the crawler
\* C25: the list continue_crawling returns holds exactly the remaining IDs
\* whose crawl raised, and every remaining ID the loop reached before the
\* time limit was attempted.
C25_ErrorListExact ==
  cont_returned =>
     /\ error_id = failed
     /\ attempted = SubSeq(loop_ids, 1, it - 1)

\* C29: when web_crawling has returned after a pass at whose end the
\* crawled-data file held at least number_of_movies rows, success is true
\* and crawling_with_time_limit has stopped.
C29_SuccessWhenEnough ==
  (wpc \in {"outer", "stopped"} /\ pass_ended
     /\ Len(crawled_file) >= number_of_movies) =>
     (success /\ wpc = "stopped")

\* C30: no IMDb ID is in the crawled-data file more than once.
C30_NoIdTwice == NoDuplicates(crawled_file)

====
